---- MODULE Spec2Model ----
(***************************************************************************)
(* Model of config/ollama_client.py (class OllamaClient): the health       *)
(* monitor with its TTL cache, the retry gate, the model resolver and the  *)
(* connection-info reporter, called by one or several threads that share   *)
(* one client object.  Time is counted in whole seconds of datetime.now(). *)
(***************************************************************************)
EXTENDS Integers, Sequences, FiniteSets, TLC

(* ------------------------------ bounds -------------------------------- *)

\* Largest max_retries value explored.
MaxRetriesBound == 2

\* Number of calls one caller starts in one behaviour.
MaxCalls == 3

\* Number of calls concurrent callers start in one behaviour.
MaxConcurrentCalls == 2

\* Seconds the clock runs on after midnight of each day.
ExtraSeconds == 2

\* Largest number of '/' a base address ends in and an endpoint begins with.
MaxSlashes == 2

(* ------------------------- program constants -------------------------- *)

\* timedelta.seconds is the seconds field of a normalised timedelta:
\* 0 <= seconds < 3600*24, the days are held in another field.
SecondsPerDay == 86400

\* OLLAMA_TIMEOUT when the environment does not set it.
DefaultTimeout == 120

\* The ceilings of the timeouts of the two requests of a health check.
VersionTimeoutCeiling == 10
ListingTimeoutCeiling == 15

(* ------------------------------ values -------------------------------- *)

\* Optional[T]: None, or a value.
None == <<>>
Some(x) == <<x>>
Get(o) == o[1]

\* str values are sequences of one-character strings.
Colon == ":"

\* Model names, as the resolver is asked for them and as the listing gives them.
Name_a1 == <<"a", ":", "1">>
Name_a2 == <<"a", ":", "2">>
Name_b1 == <<"b", ":", "1">>
Name_xa == <<"x", "a">>
Name_tag == <<":", "1">>
Name_empty == <<>>

\* The names validate_model_availability is called with.
AskedNames == {Name_a1, Name_b1, Name_tag}

\* The "models" arrays an /api/tags reply can carry: each entry's "name" is a
\* string (possibly empty) or is missing.
ListingBodies ==
    { <<>>,
      <<Some(Name_a1)>>,
      <<None, Some(Name_xa), Some(Name_empty), Some(Name_a2)>> }

\* Outcomes of GET {base_url}/api/version.
VersionOutcomes == {"200", "500", "ConnectionError", "Timeout"}

\* Outcomes of GET {base_url}/api/tags: a 200 reply with a "models" array, a
\* 200 reply without the key, a non-200 reply, a transport error, a timeout,
\* a body that is not JSON, JSON of another shape.
ListingKinds ==
    {"models", "no_models_key", "500", "ConnectionError", "Timeout",
     "not_json", "unexpected_json"}

\* The values the configuration fields take.
IntervalValues == {1}
RetryValues == 0 .. MaxRetriesBound
RetryDelayValues == {2}
TimeoutValues == {1, 9, 10, 11, 14, 15, 16, DefaultTimeout}

\* Days the clock runs through.
MaxDays == 1

\* The requests the web application receives.
MaxRequests == 2

\* main.py: the HTTP codes it answers with.
Ok == 200
ServiceUnavailable == 503
InternalServerError == 500

\* main.py line 461: sessions of at most this many minutes are run
\* synchronously; line 444: the default duration.
SyncLimit == 5
DefaultDuration == 30

\* main.py lines 331-332, 347, 349: the demo's balance and base prices in
\* dollars, and the largest price variation in percent.
InitialBalance == 10000
BasePriceBTC == 43000
BasePriceETH == 2600
MaxVariation == 5

\* main.py lines 389 and 391: the amounts bought, 0.1 BTC and 1.0 ETH, in
\* tenths of a coin.
AmountBTC == 1
AmountETH == 10
TenthsPerCoin == 10

\* Money is counted in cents: costs are rounded to 2 decimals (line 393).
CentsPerDollar == 100

Threads == {1, 2}

Slash == "/"

RECURSIVE Slashes(_)
\* '/' * n
Slashes(n) == IF n = 0 THEN <<>> ELSE <<Slash>> \o Slashes(n - 1)

\* 'http://' and 'https://', line 54 of config_loader_enhanced.py.
Http == <<"h", "t", "t", "p", ":", "/", "/">>
Https == <<"h", "t", "t", "p", "s", ":", "/", "/">>

\* How a base address begins: with one of the two schemes, with another one,
\* with a scheme short of a slash, or with none.
AddressStarts == {Http, Https, <<"f", "t", "p", ":", "/", "/">>, <<"h", "t", "t", "p", ":", "/">>, <<>>}

\* What follows: a host and port, or nothing.
AddressHosts == {<<"h", ":", "1">>, <<>>}

\* The values base_url is given: OLLAMA_BASE_URL, or the argument.
BaseUrls ==
    {a \o h \o Slashes(n) : a \in AddressStarts, h \in AddressHosts, n \in 0 .. MaxSlashes}

\* The endpoints get_api_url and get_v1_url are called with.
Endpoints ==
    {Slashes(n) \o e : n \in 0 .. MaxSlashes,
                       e \in {<<>>, <<"t", "a", "g", "s">>, <<"a", "/", "b">>}}

\* How OllamaConfig gets its base_url: as a keyword argument, or from the
\* field's default_factory (the environment).
Sources == {"argument", "default_factory"}

\* The base_url of the client whose monitor is explored.
LocalBaseUrl == Http \o <<"h", ":", "1">>

(* --------------------------- pure functions --------------------------- *)

\* p in s, for str p and s.
IsSubstring(p, s) ==
    \E i \in 0 .. (Len(s) - Len(p)) : SubSeq(s, i + 1, i + Len(p)) = p

RECURSIVE FirstIndexOf(_, _, _)
\* Index of the first c in s at or after i, or 0.
FirstIndexOf(s, c, i) ==
    IF i > Len(s) THEN 0
    ELSE IF s[i] = c THEN i
    ELSE FirstIndexOf(s, c, i + 1)

\* The name is not split.
SplitFirst_whole(model_name) == model_name

\* model_name.split(':')[0]
SplitFirst(model_name) ==
    LET k == FirstIndexOf(model_name, Colon, 1)
    IN  IF k = 0 THEN model_name ELSE SubSeq(model_name, 1, k - 1)

\* x in available, for a list.
InList(x, available) == \E i \in 1 .. Len(available) : available[i] = x

\* (a - b).seconds for datetimes a and b: the seconds field of the normalised
\* difference, which drops the days (and is in 0..86399 for a negative one).
TimedeltaSeconds(a, b) == (a - b) % SecondsPerDay

\* The age test turned round.
RecentlyChecked_inverted(now, last, interval) == TimedeltaSeconds(now, last) > interval

\* The test of the cached status's age, check_health line 80.
RecentlyChecked(now, last, interval) == TimedeltaSeconds(now, last) < interval

RECURSIVE NamesOf(_)
\* [model.get('name', '') for model in data.get('models', [])]
NamesOf(entries) ==
    IF entries = <<>> THEN <<>>
    ELSE <<IF Head(entries) = None THEN Name_empty ELSE Get(Head(entries))>>
         \o NamesOf(Tail(entries))

RECURSIVE Truthy(_)
\* [model for model in models if model]
Truthy(models) ==
    IF models = <<>> THEN <<>>
    ELSE (IF Head(models) = Name_empty THEN <<>> ELSE <<Head(models)>>)
         \o Truthy(Tail(models))

\* The names are not filtered.
GetAvailableModels_unfiltered(kind, body) ==
    IF kind = "models" THEN NamesOf(body) ELSE <<>>

\* _get_available_models: the list for a listing outcome; every failure is
\* caught and gives [].
GetAvailableModels(kind, body) ==
    IF kind = "models" THEN Truthy(NamesOf(body)) ELSE <<>>

\* str(e) of the exception a failed version request ends in.
ErrorText(outcome) ==
    IF outcome = "500" THEN "HTTP 500" ELSE outcome

\* The healthy status is given an error message.
HealthyStatus_with_error(rt, now, models) ==
    [ is_healthy       |-> TRUE,
      response_time_ms |-> rt,
      last_check       |-> now,
      error_message    |-> Some("HTTP 500"),
      available_models |-> Some(models) ]

\* OllamaHealthStatus(...) as built on success, lines 98-103.
HealthyStatus(rt, now, models) ==
    [ is_healthy       |-> TRUE,
      response_time_ms |-> rt,
      last_check       |-> now,
      error_message    |-> None,
      available_models |-> Some(models) ]

\* OllamaHealthStatus(...) as built on failure, lines 115-120.
UnhealthyStatus(rt, now, text) ==
    [ is_healthy       |-> FALSE,
      response_time_ms |-> rt,
      last_check       |-> now,
      error_message    |-> Some(text),
      available_models |-> None ]

\* Only the exception raised at line 109 is caught.
Caught_http_only(outcome) == outcome = "500"

\* Line 111, "except Exception": every exception the try block can end in
\* is caught.
Caught(outcome) == TRUE

\* Only the answers that are read are handled, an exception leaves the function.
ListingRaises_transport(kind) == kind \in {"ConnectionError", "Timeout", "not_json"}

\* Lines 143-145, "except Exception" in _get_available_models: no failure of
\* the listing leaves the function as an exception.
ListingRaises(kind) == FALSE

\* n =+ 1.
Incremented_assigned(n) == 1

\* Line 113: n += 1.
Incremented(n) == n + 1

\* s.startswith(p)
StartsWith(s, p) == Len(s) >= Len(p) /\ SubSeq(s, 1, Len(p)) = p

RECURSIVE RStrip(_, _)
\* s.rstrip(c), for a one-character c.
RStrip(s, c) ==
    IF s # <<>> /\ s[Len(s)] = c THEN RStrip(SubSeq(s, 1, Len(s) - 1), c) ELSE s

RECURSIVE LStrip(_, _)
\* s.lstrip(c), for a one-character c.
LStrip(s, c) ==
    IF s # <<>> /\ s[1] = c THEN LStrip(Tail(s), c) ELSE s

\* An OllamaConfig object, and the ValueError its construction ends in.
Config(v) == [raised |-> "none", base_url |-> v]
ValueError == [raised |-> "ValueError", base_url |-> <<>>]

\* validate_base_url, config_loader_enhanced.py lines 52-56.
validate_base_url(v) ==
    IF ~ (StartsWith(v, Http) \/ StartsWith(v, Https)) THEN ValueError
    ELSE Config(RStrip(v, Slash))

\* Line 52, "@validator('base_url')" without always=True: pydantic runs a
\* field's validators on a value that is passed in, not on the value its
\* default or default_factory gives.
RunsValidators(source) == source = "argument"

\* OllamaConfig(base_url=v), or OllamaConfig() with v in the environment.
OllamaConfig(source, v) ==
    IF RunsValidators(source) THEN validate_base_url(v) ELSE Config(v)

ApiPath == <<"/", "a", "p", "i">>
V1Path == <<"/", "v", "1">>

\* The parts are joined as they are given.
JoinUrl_unstripped(base_url, path, endpoint) ==
    base_url \o path \o <<Slash>> \o endpoint

\* Lines 54-56 and 60-62: the base without its trailing slashes, the path,
\* and the endpoint without its leading slashes if that leaves any.
JoinUrl(base_url, path, endpoint) ==
    LET base == RStrip(base_url, Slash)
        ep == LStrip(endpoint, Slash)
    IN  IF ep # <<>> THEN base \o path \o <<Slash>> \o ep ELSE base \o path

\* get_api_url(endpoint), lines 52-56.
get_api_url(base_url, endpoint) == JoinUrl(base_url, ApiPath, endpoint)

\* get_v1_url(endpoint), lines 58-62.
get_v1_url(base_url, endpoint) == JoinUrl(base_url, V1Path, endpoint)

\* min(a, b)
Min(a, b) == IF a <= b THEN a ELSE b

\* The listing is given the configured timeout as it is.
ListingTimeout_unbounded(seconds) == seconds

\* Line 89: timeout=min(self.timeout, 10).
VersionTimeout(seconds) == Min(seconds, VersionTimeoutCeiling)

\* Line 132: timeout=min(self.timeout, 15).
ListingTimeout(seconds) == Min(seconds, ListingTimeoutCeiling)

(* ------------------------------- state -------------------------------- *)

VARIABLES
    \* The base_url an OllamaConfig is made from and where it comes from, and
    \* the OllamaConfig once it is made.
    supplied, ollama_config,
    \* OllamaClient.__init__, lines 37-43: the configuration, read once;
    \* base_url is None as long as there is no client.
    base_url, timeout,
    health_check_enabled, health_check_interval, max_retries, retry_delay,
    \* The last URL the client was asked for.
    url,
    \* OllamaClient.__init__, lines 46-48: the health monitoring state.
    _last_health_check, _health_status, _consecutive_failures,
    \* datetime.now() / time.time().
    clock,
    \* What surrounds the client: the answers the Ollama service can give, the
    \* names callers ask for, the calls they make, the days that pass.
    env,
    \* The threads that call the client, each one's position and locals.
    callers, pc, local,
    \* Observation of one call: the requests it sent and the sleeps it took,
    \* in order.
    log,
    \* Observation of the monitor: calls started, and the version requests
    \* that failed since the last one that succeeded.
    calls, failed_probes,
    \* main.py, the web application: the request being answered, the locals of
    \* its handler, and the response.
    request, frame, response,
    \* Observation of one request: the commands its handler ran or launched.
    commands,
    \* Observation of the application: the requests received.
    requests

address_vars == <<supplied, ollama_config, base_url, url>>
config_vars == <<timeout, health_check_enabled, health_check_interval, max_retries, retry_delay>>
monitor_vars == <<_last_health_check, _health_status, _consecutive_failures>>
clock_vars == <<clock>>
client_vars == <<supplied, ollama_config, base_url, url, timeout,
                 health_check_enabled, health_check_interval, max_retries, retry_delay,
                 _last_health_check, _health_status, _consecutive_failures,
                 clock, env, callers, pc, local, log, calls, failed_probes>>
app_vars == <<request, frame, response, commands, requests>>
vars == <<client_vars, app_vars>>

\* What a call does that its caller can watch from outside: the two requests
\* with the timeout they are given, and the sleeps.
VersionRequest(ok) ==
    [ev |-> "version", arg |-> IF ok THEN 1 ELSE 0, timeout |-> VersionTimeout(timeout)]
TagsRequest == [ev |-> "tags", arg |-> 0, timeout |-> ListingTimeout(timeout)]
Sleep(seconds) == [ev |-> "sleep", arg |-> seconds, timeout |-> 0]

\* The locals of a thread that is in no call.
IdleLocal ==
    [ op |-> "none", force |-> FALSE, model_name |-> Name_empty,
      now |-> 0, start_time |-> 0, outcome |-> "none", kind |-> "none",
      response_time_ms |-> 0,
      body |-> <<>>, models |-> <<>>, attempt |-> 0, loaded |-> 0, result |-> None,
      \* observation: the counter when check_health was entered
      failures_before |-> 0,
      \* observation: the counter when ensure_healthy was called
      failures_at_call |-> 0 ]

\* Every answer of the service, every asked name.
WholeEnv ==
    [ version |-> VersionOutcomes, kinds |-> ListingKinds, bodies |-> ListingBodies,
      names |-> AskedNames, calls |-> MaxCalls, days |-> MaxDays ]

\* The service answers or refuses, and lists one model; the clock stays
\* within one day.
SmallEnv ==
    [ version |-> {"200", "500"}, kinds |-> {"models", "500"},
      bodies |-> {<<Some(Name_a1)>>}, names |-> {Name_a1},
      calls |-> MaxConcurrentCalls, days |-> 0 ]

\* The state after OllamaClient(config) for a config made with base_url=v.
ClientFor(v) ==
    /\ supplied = [source |-> "argument", value |-> v]
    /\ ollama_config = Some(OllamaConfig("argument", v))
    /\ base_url = Some(Get(ollama_config).base_url)
    /\ url = None

\* The web application has received no request.
AppIdle ==
    /\ request = None
    /\ frame = None
    /\ response = None
    /\ commands = <<>>
    /\ requests = 0

\* The monitor after OllamaClient(config), for the callers cs in the environment e.
InitWith(cs, e, enabled, intervals, retries, delays) ==
    /\ AppIdle
    /\ env = e
    /\ health_check_enabled \in enabled
    /\ health_check_interval \in intervals
    /\ max_retries \in retries
    /\ retry_delay \in delays
    /\ _last_health_check = None
    /\ _health_status = None
    /\ _consecutive_failures = 0
    /\ clock = 0
    /\ callers = cs
    /\ pc = [t \in Threads |-> "idle"]
    /\ local = [t \in Threads |-> IdleLocal]
    /\ log = [t \in Threads |-> <<>>]
    /\ calls = 0
    /\ failed_probes = 0

\* One thread calls the client.
Init ==
    /\ ClientFor(LocalBaseUrl)
    /\ timeout = DefaultTimeout
    /\ InitWith({1}, WholeEnv, BOOLEAN, IntervalValues, RetryValues, RetryDelayValues)

(* ------------------------- entering and leaving ------------------------ *)

\* A call begins: the thread is in no call and the behaviour has calls left.
Begins(t) ==
    /\ t \in callers
    /\ pc[t] \in {"idle", "done"}
    /\ calls < env.calls
    /\ calls' = calls + 1
    /\ log' = [log EXCEPT ![t] = <<>>]

\* The call of thread t returns r to its caller; its other locals are gone.
Done(t, loc, r) ==
    /\ pc' = [pc EXCEPT ![t] = "done"]
    /\ local' = [local EXCEPT ![t] = [IdleLocal EXCEPT !.op = loc.op,
                                                         !.force = loc.force,
                                                         !.model_name = loc.model_name,
                                                         !.outcome = loc.outcome,
                                                         !.failures_before = loc.failures_before,
                                                         !.failures_at_call = loc.failures_at_call,
                                                         !.result = r]]

\* check_health line 74, "now = datetime.now()": the body is entered.
EnterCheckHealth(t, loc, force) ==
    /\ pc' = [pc EXCEPT ![t] = "ch_cache"]
    /\ local' = [local EXCEPT ![t] = [loc EXCEPT !.force = force, !.now = clock,
                                                   !.failures_before = _consecutive_failures]]

\* The last attempt is taken for one more to come.
EnsureHealthyAfter_one_more(t, loc, st) ==
    IF st.is_healthy THEN Done(t, loc, TRUE)
    ELSE IF loc.attempt < max_retries
         THEN /\ pc' = [pc EXCEPT ![t] = "eh_sleep"]
              /\ local' = [local EXCEPT ![t] = loc]
         ELSE Done(t, loc, FALSE)

\* ensure_healthy returns r: to the caller of the client, or to
\* create_ollama_client at line 249.
EnsureHealthyReturns(t, loc, r) ==
    IF loc.op = "create_ollama_client"
    THEN /\ pc' = [pc EXCEPT ![t] = "co_log"]
         /\ local' = [local EXCEPT ![t] = [loc EXCEPT !.result = r]]
    ELSE Done(t, loc, r)

\* ensure_healthy lines 168-176, after check_health(force=True) gave st.
EnsureHealthyAfter(t, loc, st) ==
    IF st.is_healthy THEN EnsureHealthyReturns(t, loc, TRUE)
    ELSE IF loc.attempt < max_retries - 1
         THEN /\ pc' = [pc EXCEPT ![t] = "eh_sleep"]
              /\ local' = [local EXCEPT ![t] = loc]
         ELSE EnsureHealthyReturns(t, loc, FALSE)

\* What the caller of check_health does with the status st it returns.
Returned(t, loc, st) ==
    CASE loc.op = "check_health" -> Done(t, loc, st)
      [] loc.op = "is_healthy" -> Done(t, loc, st.is_healthy)
      [] loc.op = "ensure_healthy" -> EnsureHealthyAfter(t, loc, st)
      [] loc.op = "create_ollama_client" -> EnsureHealthyAfter(t, loc, st)
      [] loc.op = "get_connection_info" ->
            /\ pc' = [pc EXCEPT ![t] = "ci_build"]
            /\ local' = [local EXCEPT ![t] = [loc EXCEPT !.result = st]]
      [] loc.op = "validate_model_availability" ->
            IF ~ st.is_healthy THEN Done(t, loc, FALSE)
            ELSE /\ pc' = [pc EXCEPT ![t] = "va_status"]
                 /\ local' = [local EXCEPT ![t] = loc]

(* ----------------------------- check_health ---------------------------- *)

\* check_health(force), called by a thread.
Call_check_health(t) ==
    \E force \in BOOLEAN :
        /\ Begins(t)
        /\ EnterCheckHealth(t, [IdleLocal EXCEPT !.op = "check_health"], force)
        /\ UNCHANGED <<app_vars, address_vars, config_vars, monitor_vars, clock_vars, env, callers, failed_probes>>

\* Lines 77-83: return the cached status, or go on to the probe.
check_health_cache(t) ==
    /\ pc[t] = "ch_cache"
    /\ IF /\ ~ local[t].force
          /\ _last_health_check # None
          /\ _health_status # None
          /\ RecentlyChecked(local[t].now, Get(_last_health_check), health_check_interval)
       THEN Returned(t, local[t], Get(_health_status))
       ELSE /\ pc' = [pc EXCEPT ![t] = "ch_version"]
            /\ local' = [local EXCEPT ![t].start_time = clock]
    /\ UNCHANGED <<app_vars, address_vars, config_vars, monitor_vars, clock_vars, env, callers, log,
                   calls, failed_probes>>

\* Lines 87-94 and 109: GET /api/version answers, or fails.
check_health_version(t) ==
    /\ pc[t] = "ch_version"
    /\ \E outcome \in env.version :
        /\ log' = [log EXCEPT ![t] = Append(@, VersionRequest(outcome = "200"))]
        /\ failed_probes' = IF outcome = "200" THEN 0 ELSE failed_probes + 1
        /\ local' = [local EXCEPT ![t].outcome = outcome,
                                  ![t].response_time_ms = (clock - local[t].start_time) * 1000]
        /\ pc' = [pc EXCEPT ![t] =
                    IF outcome = "200" THEN "ch_tags"
                    ELSE IF Caught(outcome) THEN "ch_inc_load" ELSE "raised"]
    /\ UNCHANGED <<app_vars, address_vars, config_vars, monitor_vars, clock_vars, env, callers, calls>>

\* Line 96: models = self._get_available_models().
check_health_tags(t) ==
    /\ pc[t] = "ch_tags"
    /\ \E kind \in env.kinds, body \in env.bodies \cup {<<>>} :
        /\ kind # "models" => body = <<>>
        /\ local' = [local EXCEPT ![t].models = GetAvailableModels(kind, body),
                                  ![t].body = body,
                                  ![t].kind = kind]
        /\ pc' = [pc EXCEPT ![t] =
                    IF ListingRaises(kind) THEN "ch_inc_load" ELSE "ch_store_ok"]
    /\ log' = [log EXCEPT ![t] = Append(@, TagsRequest)]
    /\ UNCHANGED <<app_vars, address_vars, config_vars, monitor_vars, clock_vars, env, callers, calls,
                   failed_probes>>

\* Lines 98-103: self._health_status = OllamaHealthStatus(is_healthy=True, ...).
check_health_store_ok(t) ==
    /\ pc[t] = "ch_store_ok"
    /\ _health_status' = Some(HealthyStatus(local[t].response_time_ms, local[t].now,
                                           local[t].models))
    /\ pc' = [pc EXCEPT ![t] = "ch_reset"]
    /\ UNCHANGED <<app_vars, address_vars, config_vars, _last_health_check, _consecutive_failures, clock_vars,
                   env, callers, local, log, calls, failed_probes>>

\* Line 104: self._consecutive_failures = 0.
check_health_reset(t) ==
    /\ pc[t] = "ch_reset"
    /\ _consecutive_failures' = 0
    /\ pc' = [pc EXCEPT ![t] = "ch_stamp"]
    /\ UNCHANGED <<app_vars, address_vars, config_vars, _last_health_check, _health_status, clock_vars,
                   env, callers, local, log, calls, failed_probes>>

\* Line 113, "self._consecutive_failures += 1": the attribute is loaded.
check_health_inc_load(t) ==
    /\ pc[t] = "ch_inc_load"
    /\ local' = [local EXCEPT ![t].loaded = _consecutive_failures]
    /\ pc' = [pc EXCEPT ![t] = "ch_inc_store"]
    /\ UNCHANGED <<app_vars, address_vars, config_vars, monitor_vars, clock_vars, env, callers, log,
                   calls, failed_probes>>

\* Line 113: the incremented value is stored.
check_health_inc_store(t) ==
    /\ pc[t] = "ch_inc_store"
    /\ _consecutive_failures' = Incremented(local[t].loaded)
    /\ pc' = [pc EXCEPT ![t] = "ch_store_fail"]
    /\ UNCHANGED <<app_vars, address_vars, config_vars, _last_health_check, _health_status, clock_vars,
                   env, callers, local, log, calls, failed_probes>>

\* The stored object is written to instead of replaced: whoever was handed it
\* sees the new values.
check_health_store_fail_in_place(t) ==
    /\ pc[t] = "ch_store_fail"
    /\ _health_status' = Some(UnhealthyStatus(local[t].response_time_ms, local[t].now,
                                             ErrorText(local[t].outcome)))
    /\ pc' = [pc EXCEPT ![t] = "ch_stamp"]
    /\ local' = [u \in Threads |->
                    IF pc[u] = "done" /\ local[u].op = "check_health"
                    THEN [local[u] EXCEPT !.result = Get(_health_status')]
                    ELSE local[u]]
    /\ UNCHANGED <<app_vars, address_vars, config_vars, _last_health_check, _consecutive_failures, clock_vars,
                   env, callers, log, calls, failed_probes>>

\* Lines 115-120: self._health_status = OllamaHealthStatus(is_healthy=False, ...).
check_health_store_fail(t) ==
    /\ pc[t] = "ch_store_fail"
    /\ _health_status' = Some(UnhealthyStatus(local[t].response_time_ms, local[t].now,
                                             ErrorText(local[t].outcome)))
    /\ pc' = [pc EXCEPT ![t] = "ch_stamp"]
    /\ UNCHANGED <<app_vars, address_vars, config_vars, _last_health_check, _consecutive_failures, clock_vars,
                   env, callers, local, log, calls, failed_probes>>

\* Line 124: self._last_health_check = now.
check_health_stamp(t) ==
    /\ pc[t] = "ch_stamp"
    /\ _last_health_check' = Some(local[t].now)
    /\ pc' = [pc EXCEPT ![t] = "ch_return"]
    /\ UNCHANGED <<app_vars, address_vars, config_vars, _health_status, _consecutive_failures, clock_vars,
                   env, callers, local, log, calls, failed_probes>>

\* Line 125: return self._health_status.
check_health_return(t) ==
    /\ pc[t] = "ch_return"
    /\ Returned(t, local[t], Get(_health_status))
    /\ UNCHANGED <<app_vars, address_vars, config_vars, monitor_vars, clock_vars, env, callers, log,
                   calls, failed_probes>>

(* ------------------------------ is_healthy ----------------------------- *)

\* The flag is not looked at.
HealthChecksOff_ignored == FALSE

\* Lines 149 and 162: "if not self.health_check_enabled".
HealthChecksOff == ~ health_check_enabled

\* is_healthy(), lines 149-153.
Call_is_healthy(t) ==
    /\ Begins(t)
    /\ IF HealthChecksOff
       THEN Done(t, [IdleLocal EXCEPT !.op = "is_healthy"], TRUE)
       ELSE EnterCheckHealth(t, [IdleLocal EXCEPT !.op = "is_healthy"], FALSE)
    /\ UNCHANGED <<app_vars, address_vars, config_vars, monitor_vars, clock_vars, env, callers, failed_probes>>

(* ---------------------------- ensure_healthy --------------------------- *)

\* ensure_healthy(), lines 162-166: the first attempt begins, or there is none.
Call_ensure_healthy(t) ==
    /\ Begins(t)
    /\ LET loc == [IdleLocal EXCEPT !.op = "ensure_healthy",
                                    !.failures_at_call = _consecutive_failures]
       IN  IF HealthChecksOff THEN Done(t, loc, TRUE)
           ELSE IF max_retries <= 0 THEN Done(t, loc, FALSE)
           ELSE EnterCheckHealth(t, loc, TRUE)
    /\ UNCHANGED <<app_vars, address_vars, config_vars, monitor_vars, clock_vars, env, callers, failed_probes>>

\* The thread sleeps twice before the next attempt.
ensure_healthy_sleep_twice(t) ==
    /\ pc[t] = "eh_sleep"
    /\ log' = [log EXCEPT ![t] = @ \o <<Sleep(retry_delay), Sleep(retry_delay)>>]
    /\ EnterCheckHealth(t, [local[t] EXCEPT !.attempt = @ + 1], TRUE)
    /\ UNCHANGED <<app_vars, address_vars, config_vars, monitor_vars, clock_vars, env, callers, calls,
                   failed_probes>>

\* Lines 171-173 and 165-166: time.sleep(self.retry_delay), then the next
\* attempt calls check_health(force=True).
ensure_healthy_sleep(t) ==
    /\ pc[t] = "eh_sleep"
    /\ log' = [log EXCEPT ![t] = Append(@, Sleep(retry_delay))]
    /\ EnterCheckHealth(t, [local[t] EXCEPT !.attempt = @ + 1], TRUE)
    /\ UNCHANGED <<app_vars, address_vars, config_vars, monitor_vars, clock_vars, env, callers, calls,
                   failed_probes>>

(* --------------------------- get_health_status ------------------------- *)

\* None is returned, whatever is stored.
Call_get_health_status_absent(t) ==
    /\ Begins(t)
    /\ Done(t, [IdleLocal EXCEPT !.op = "get_health_status"], None)
    /\ UNCHANGED <<app_vars, address_vars, config_vars, monitor_vars, clock_vars, env, callers, failed_probes>>

\* get_health_status(), line 180.
Call_get_health_status(t) ==
    /\ Begins(t)
    /\ Done(t, [IdleLocal EXCEPT !.op = "get_health_status"], _health_status)
    /\ UNCHANGED <<app_vars, address_vars, config_vars, monitor_vars, clock_vars, env, callers, failed_probes>>

(* -------------------------- get_connection_info ------------------------ *)

\* The status is asked for with force=True.
Call_get_connection_info_forced(t) ==
    /\ Begins(t)
    /\ EnterCheckHealth(t, [IdleLocal EXCEPT !.op = "get_connection_info"], TRUE)
    /\ UNCHANGED <<app_vars, address_vars, config_vars, monitor_vars, clock_vars, env, callers, failed_probes>>

\* get_connection_info(), line 184: status = self.check_health().
Call_get_connection_info(t) ==
    /\ Begins(t)
    /\ EnterCheckHealth(t, [IdleLocal EXCEPT !.op = "get_connection_info"], FALSE)
    /\ UNCHANGED <<app_vars, address_vars, config_vars, monitor_vars, clock_vars, env, callers, failed_probes>>

\* The dict of lines 186-198, for the status returned by check_health and the
\* counter as read at line 196.
ConnectionInfo(status, failures) ==
    [ health_check_enabled |-> health_check_enabled,
      is_healthy           |-> status.is_healthy,
      response_time_ms     |-> status.response_time_ms,
      last_check           |-> status.last_check,
      available_models     |-> status.available_models,
      consecutive_failures |-> failures,
      error_message        |-> status.error_message ]

\* Lines 186-198: the dict is built and returned.
get_connection_info_build(t) ==
    /\ pc[t] = "ci_build"
    /\ Done(t, local[t], ConnectionInfo(local[t].result, _consecutive_failures))
    /\ UNCHANGED <<app_vars, address_vars, config_vars, monitor_vars, clock_vars, env, callers, log,
                   calls, failed_probes>>

(* ---------------------- validate_model_availability -------------------- *)

\* The status is asked of check_health whether or not health checks are on.
Call_validate_model_availability_probing(t) ==
    \E model_name \in env.names :
        /\ Begins(t)
        /\ EnterCheckHealth(t, [IdleLocal EXCEPT !.op = "validate_model_availability",
                                                 !.model_name = model_name], FALSE)
        /\ UNCHANGED <<app_vars, address_vars, config_vars, monitor_vars, clock_vars, env, callers, failed_probes>>

\* validate_model_availability(model_name), line 210: self.is_healthy().
Call_validate_model_availability(t) ==
    \E model_name \in env.names :
        /\ Begins(t)
        /\ LET loc == [IdleLocal EXCEPT !.op = "validate_model_availability",
                                        !.model_name = model_name]
           IN  IF HealthChecksOff
               THEN /\ pc' = [pc EXCEPT ![t] = "va_status"]
                    /\ local' = [local EXCEPT ![t] = loc]
               ELSE EnterCheckHealth(t, loc, FALSE)
        /\ UNCHANGED <<app_vars, address_vars, config_vars, monitor_vars, clock_vars, env, callers, failed_probes>>

\* Only a name that is an entry of the list is found.
ModelMatches_exact_only(model_name, available) == InList(model_name, available)

\* Lines 219-232: exact match, or the part before the first ':' is contained
\* in some available model.
ModelMatches(model_name, available) ==
    LET exact_match == InList(model_name, available)
        partial_match ==
            \E i \in 1 .. Len(available) : IsSubstring(SplitFirst(model_name), available[i])
    IN  exact_match \/ partial_match

\* Lines 214-217: there is a status and its model list is neither None nor [].
HasModelList(status) ==
    /\ status # None
    /\ Get(status).available_models # None
    /\ Get(Get(status).available_models) # <<>>

\* Lines 214-232: status = self.get_health_status(), and the answer.
validate_model_availability_status(t) ==
    /\ pc[t] = "va_status"
    /\ Done(t, local[t],
            IF HasModelList(_health_status)
            THEN ModelMatches(local[t].model_name, Get(Get(_health_status).available_models))
            ELSE FALSE)
    /\ UNCHANGED <<app_vars, address_vars, config_vars, monitor_vars, clock_vars, env, callers, log,
                   calls, failed_probes>>

(* ----------------------------- environment ----------------------------- *)

\* The points where a thread is between calls or blocked: in a request or
\* in time.sleep.
WaitingPoints == {"idle", "done", "ch_version", "ch_tags", "eh_sleep"}

\* Whether d seconds can pass now.  A second passes while every thread
\* waits: the steps between two waiting points take no whole second.  A day
\* passes between calls: a request or a sleep is over long before.
CanPass(d) ==
    IF d = 1
    THEN /\ \A t \in callers : pc[t] \in WaitingPoints
         /\ clock % SecondsPerDay < ExtraSeconds
    ELSE /\ \A t \in callers : pc[t] \in {"idle", "done"}
         /\ clock \div SecondsPerDay < env.days

\* Time passes.
Tick ==
    /\ \E d \in {1, SecondsPerDay} :
        /\ CanPass(d)
        /\ clock' = clock + d
    /\ UNCHANGED <<app_vars, address_vars, config_vars, monitor_vars, env, callers, pc, local, log,
                   calls, failed_probes>>

Next ==
    \/ Tick
    \/ \E t \in Threads :
        \/ Call_check_health(t)
        \/ check_health_cache(t)
        \/ check_health_version(t)
        \/ check_health_tags(t)
        \/ check_health_store_ok(t)
        \/ check_health_reset(t)
        \/ check_health_inc_load(t)
        \/ check_health_inc_store(t)
        \/ check_health_store_fail(t)
        \/ check_health_stamp(t)
        \/ check_health_return(t)
        \/ Call_is_healthy(t)
        \/ Call_ensure_healthy(t)
        \/ ensure_healthy_sleep(t)
        \/ Call_get_health_status(t)
        \/ Call_get_connection_info(t)
        \/ get_connection_info_build(t)
        \/ Call_validate_model_availability(t)
        \/ validate_model_availability_status(t)

\* One thread calls the client.
Spec == Init /\ [][Next]_vars

\* Two threads call the one client, with health checks enabled.
InitConcurrent ==
    /\ ClientFor(LocalBaseUrl)
    /\ timeout = DefaultTimeout
    /\ InitWith({1, 2}, SmallEnv, {TRUE}, IntervalValues, {2}, RetryDelayValues)

SpecConcurrent == InitConcurrent /\ [][Next]_vars

(* ------------------------------ scheduling ------------------------------ *)

\* The next step of thread t inside a call: the statement it is at is
\* executed, the request it waits for returns (requests.get has a timeout,
\* lines 89 and 132), the sleep it is in ends (line 173).
Progress(t) ==
    \/ check_health_cache(t)
    \/ check_health_version(t)
    \/ check_health_tags(t)
    \/ check_health_store_ok(t)
    \/ check_health_reset(t)
    \/ check_health_inc_load(t)
    \/ check_health_inc_store(t)
    \/ check_health_store_fail(t)
    \/ check_health_stamp(t)
    \/ check_health_return(t)
    \/ ensure_healthy_sleep(t)
    \/ get_connection_info_build(t)
    \/ validate_model_availability_status(t)

\* One thread calls the client, with health checks enabled and every
\* max_retries.
InitLive ==
    /\ ClientFor(LocalBaseUrl)
    /\ timeout = DefaultTimeout
    /\ InitWith({1}, SmallEnv, {TRUE}, IntervalValues, RetryValues, RetryDelayValues)

\* A thread that is inside a call goes on.
SpecLive == InitLive /\ [][Next]_vars /\ \A t \in Threads : WF_vars(Progress(t))

(* ------------------------------- timeouts ------------------------------- *)

\* One thread calls a client made with any of the timeouts.
InitTimeouts ==
    /\ ClientFor(LocalBaseUrl)
    /\ timeout \in TimeoutValues
    /\ InitWith({1}, SmallEnv, {TRUE}, IntervalValues, {2}, RetryDelayValues)

SpecTimeouts == InitTimeouts /\ [][Next]_vars

(* ------------------------- create_ollama_client ------------------------ *)

\* What create_ollama_client returns: the client it made at line 244.
Client == "client"

\* The call of ensure_healthy at line 249, as its caller can watch it.
EnsureHealthyCall == [ev |-> "ensure_healthy", arg |-> 0, timeout |-> 0]

\* At line 261 the factory tries ensure_healthy() again when it gave False.
create_ollama_client_log_retrying(t) ==
    /\ pc[t] = "co_log"
    /\ IF local[t].result = FALSE /\ max_retries > 0
       THEN /\ log' = [log EXCEPT ![t] = Append(@, EnsureHealthyCall)]
            /\ EnterCheckHealth(t, [local[t] EXCEPT !.attempt = 0], TRUE)
       ELSE /\ Done(t, local[t], Client)
            /\ UNCHANGED log
    /\ UNCHANGED <<app_vars, address_vars, config_vars, monitor_vars, clock_vars, env, callers, calls,
                   failed_probes>>

\* create_ollama_client(config), lines 244-249 and 262-265: a new client is
\* made; with health checks enabled ensure_healthy() is called on it
\* (lines 162-166: its first attempt begins, or there is none), otherwise
\* the client is returned.
Call_create_ollama_client(t) ==
    /\ t \in callers
    /\ pc[t] \in {"idle", "done"}
    /\ calls < env.calls
    /\ calls' = calls + 1
    /\ _last_health_check' = None
    /\ _health_status' = None
    /\ _consecutive_failures' = 0
    /\ failed_probes' = 0
    /\ LET loc == [IdleLocal EXCEPT !.op = "create_ollama_client"]
       IN  IF ~ health_check_enabled
           THEN /\ Done(t, loc, Client)
                /\ log' = [log EXCEPT ![t] = <<>>]
           ELSE /\ log' = [log EXCEPT ![t] = <<EnsureHealthyCall>>]
                /\ IF max_retries <= 0
                   THEN EnsureHealthyReturns(t, loc, FALSE)
                   ELSE /\ pc' = [pc EXCEPT ![t] = "ch_cache"]
                        /\ local' = [local EXCEPT ![t] =
                                        [loc EXCEPT !.force = TRUE, !.now = clock]]
    /\ UNCHANGED <<app_vars, address_vars, config_vars, clock_vars, env, callers>>

\* Lines 250-261 and 265: the outcome is logged (after True the status is
\* read at line 253 for the log line), and the client is returned.
create_ollama_client_log(t) ==
    /\ pc[t] = "co_log"
    /\ Done(t, local[t], Client)
    /\ UNCHANGED <<app_vars, address_vars, config_vars, monitor_vars, clock_vars, env, callers, log,
                   calls, failed_probes>>

\* The factory is called, once or several times, for a configuration with
\* any of the settings.
InitFactory ==
    /\ ClientFor(LocalBaseUrl)
    /\ timeout = DefaultTimeout
    /\ InitWith({1}, WholeEnv, BOOLEAN, IntervalValues, RetryValues, RetryDelayValues)

NextFactory ==
    \/ Tick
    \/ \E t \in Threads :
        \/ Call_create_ollama_client(t)
        \/ check_health_cache(t)
        \/ check_health_version(t)
        \/ check_health_tags(t)
        \/ check_health_store_ok(t)
        \/ check_health_reset(t)
        \/ check_health_inc_load(t)
        \/ check_health_inc_store(t)
        \/ check_health_store_fail(t)
        \/ check_health_stamp(t)
        \/ check_health_return(t)
        \/ ensure_healthy_sleep(t)
        \/ create_ollama_client_log(t)

SpecFactory == InitFactory /\ [][NextFactory]_vars

(* ------------------------ callers that write --------------------------- *)

\* The OllamaHealthStatus object the finished call of thread t handed to its
\* caller, if any: lines 81, 125 and 180 return self._health_status itself.
HeldStatus(t) ==
    IF pc[t] # "done" THEN None
    ELSE IF local[t].op = "check_health" THEN Some(local[t].result)
    ELSE IF local[t].op = "get_health_status" THEN local[t].result
    ELSE None

\* What a caller can make of a status object: OllamaHealthStatus is a plain
\* dataclass (lines 16-23), its fields can be assigned and its list changed.
Modified(st) ==
    {[st EXCEPT !.is_healthy = ~ @], [st EXCEPT !.available_models = Some(<<>>)]} \ {st}

\* The caller writes to the status object it was handed.  With one caller
\* the object it holds is the one the client has stored.
Caller_modifies(t) ==
    /\ t \in callers
    /\ HeldStatus(t) # None
    /\ HeldStatus(t) = _health_status
    /\ \E st \in Modified(Get(_health_status)) :
        /\ _health_status' = Some(st)
        /\ local' = [local EXCEPT ![t].result =
                        IF local[t].op = "check_health" THEN st ELSE Some(st)]
    /\ UNCHANGED <<app_vars, address_vars, config_vars, _last_health_check, _consecutive_failures,
                   clock_vars, env, callers, pc, log, calls, failed_probes>>

\* One thread calls the client and writes to what it is handed.
InitCallerWrites ==
    /\ ClientFor(LocalBaseUrl)
    /\ timeout = DefaultTimeout
    /\ InitWith({1}, SmallEnv, {TRUE}, IntervalValues, {2}, RetryDelayValues)

NextCallerWrites ==
    \/ Next
    \/ \E t \in Threads : Caller_modifies(t)

SpecCallerWrites == InitCallerWrites /\ [][NextCallerWrites]_vars

(* ------------------------ configuration and URLs ---------------------- *)

\* OllamaConfig(...), config_loader_enhanced.py lines 43-56: the object, or
\* the ValueError of the validator.
OllamaConfig_new ==
    /\ ollama_config = None
    /\ ollama_config' = Some(OllamaConfig(supplied.source, supplied.value))
    /\ UNCHANGED <<app_vars, supplied, base_url, url, config_vars, monitor_vars, clock_vars,
                   env, callers, pc, local, log, calls, failed_probes>>

\* OllamaClient(config), line 38: self.base_url = config.ollama.base_url.
OllamaClient_init ==
    /\ ollama_config # None
    /\ Get(ollama_config).raised = "none"
    /\ base_url = None
    /\ base_url' = Some(Get(ollama_config).base_url)
    /\ UNCHANGED <<app_vars, supplied, ollama_config, url, config_vars, monitor_vars, clock_vars,
                   env, callers, pc, local, log, calls, failed_probes>>

\* client.get_api_url(endpoint), lines 52-56.
Call_get_api_url ==
    /\ base_url # None
    /\ \E endpoint \in Endpoints :
        url' = Some([fn |-> "get_api_url", endpoint |-> endpoint,
                     result |-> get_api_url(Get(base_url), endpoint)])
    /\ UNCHANGED <<app_vars, supplied, ollama_config, base_url, config_vars, monitor_vars,
                   clock_vars, env, callers, pc, local, log, calls, failed_probes>>

\* client.get_v1_url(endpoint), lines 58-62.
Call_get_v1_url ==
    /\ base_url # None
    /\ \E endpoint \in Endpoints :
        url' = Some([fn |-> "get_v1_url", endpoint |-> endpoint,
                     result |-> get_v1_url(Get(base_url), endpoint)])
    /\ UNCHANGED <<app_vars, supplied, ollama_config, base_url, config_vars, monitor_vars,
                   clock_vars, env, callers, pc, local, log, calls, failed_probes>>

\* Before OllamaConfig is made: the value base_url will be given, and from
\* where.  No thread calls the monitor.
InitConfig ==
    /\ supplied \in [source : Sources, value : BaseUrls]
    /\ ollama_config = None
    /\ base_url = None
    /\ url = None
    /\ timeout = DefaultTimeout
    /\ InitWith({}, SmallEnv, {TRUE}, IntervalValues, {2}, RetryDelayValues)

NextConfig ==
    \/ OllamaConfig_new
    \/ OllamaClient_init
    \/ Call_get_api_url
    \/ Call_get_v1_url

\* A configuration is made, a client of it, and the client is asked for URLs.
SpecConfig == InitConfig /\ [][NextConfig]_vars

(* ================================ main.py =============================== *)

\* A request arrives; the handlers have no await, so each runs to its end
\* before the next request is taken.
Receives ==
    /\ response # None \/ request = None
    /\ requests < MaxRequests
    /\ requests' = requests + 1

\* A JSON response of FastAPI with the given HTTP code and "status" field.
Json(code, status) == [code |-> code, status |-> status]

\* HTTPException(status_code=500, ...).
HttpError == Json(InternalServerError, "error")

(* ----------------------- POST /trading/paper/session -------------------- *)

\* The durations, in minutes, a session is asked for.
Durations == {0, 1, SyncLimit, SyncLimit + 1, DefaultDuration}

\* What subprocess.run(cmd, timeout=...) ends in: the command exits with a
\* return code, or run raises (the timeout expires, the program or /app is
\* not found).
RunOutcomes ==
    { [raised |-> "none", returncode |-> 0],
      [raised |-> "none", returncode |-> 1],
      [raised |-> "TimeoutExpired", returncode |-> 1],
      [raised |-> "FileNotFoundError", returncode |-> 1] }

\* The command of line 454, as run or launched.
Command(duration, how) == [cmd |-> "run_paper_trading", duration |-> duration, how |-> how]

\* Lines 487-497: nothing is launched.
SessionBackground(duration) == <<>>

\* start_paper_trading_session, lines 448-504, for the default balance and
\* symbols.
start_paper_trading_session ==
    /\ Receives
    /\ \E duration \in Durations :
        /\ request' = Some([path |-> "/trading/paper/session", duration |-> duration])
        /\ IF duration <= SyncLimit
           THEN \E result \in RunOutcomes :
                   /\ commands' = <<Command(duration, "run")>>
                   /\ response' =
                         IF result.raised # "none" THEN Some(HttpError)
                         ELSE IF result.returncode = 0 THEN Some(Json(Ok, "completed"))
                         ELSE Some(Json(Ok, "failed"))
                   /\ frame' = Some([op |-> "session", result |-> result])
           ELSE /\ commands' = SessionBackground(duration)
                /\ response' = Some(Json(Ok, "started"))
                /\ frame' = Some([op |-> "session"])
    /\ UNCHANGED client_vars

(* ------------------------------ GET /health ----------------------------- *)

\* requests.get(f"{ollama_url}/api/tags", timeout=5), line 106: whether it
\* returns a response, and with which status code.
TagsRaises(kind) == kind \in {"ConnectionError", "Timeout"}
TagsStatusCode(kind) == IF kind = "500" THEN InternalServerError ELSE Ok

\* Lines 109-111: response.json().get('models', []) and the names of its
\* entries are read with no exception.
TagsBodyRead(kind) == kind \in {"models", "no_models_key"}

\* health_check, lines 86-91: the health_status dict is made.
health_check ==
    /\ Receives
    /\ request' = Some([path |-> "/health"])
    /\ frame' = Some([op |-> "health", at |-> "config", status |-> "healthy",
                      config |-> "none", ollama |-> "none",
                      loaded |-> FALSE, tags |-> "none"])
    /\ response' = None
    /\ commands' = <<>>
    /\ UNCHANGED client_vars

\* Lines 93-100: ConfigLoader is imported and made, or that raises.
health_check_config ==
    /\ frame # None
    /\ Get(frame).op = "health"
    /\ Get(frame).at = "config"
    /\ \E loaded \in BOOLEAN :
        frame' = Some([Get(frame) EXCEPT
                          !.at = "ollama",
                          !.loaded = loaded,
                          !.config = IF loaded THEN "healthy" ELSE "unhealthy",
                          !.status = IF loaded THEN @ ELSE "degraded"])
    /\ UNCHANGED <<client_vars, request, response, commands, requests>>

\* What lines 102-117 leave in services.ollama and in status, for the reply
\* kind to GET /api/tags.
OllamaChecked(f, kind) ==
    IF TagsRaises(kind)
    THEN [f EXCEPT !.ollama = "unreachable", !.status = "degraded"]
    ELSE IF TagsStatusCode(kind) = Ok
         THEN IF TagsBodyRead(kind)
              THEN [f EXCEPT !.ollama = "healthy"]
              ELSE [f EXCEPT !.ollama = "unreachable", !.status = "degraded"]
         ELSE [f EXCEPT !.ollama = "unhealthy", !.status = "degraded"]

\* A reply that is read sets the status to "healthy".
health_check_ollama_resetting ==
    /\ frame # None
    /\ Get(frame).op = "health"
    /\ Get(frame).at = "ollama"
    /\ \E kind \in ListingKinds :
        LET f == OllamaChecked(Get(frame), kind)
        IN  frame' = Some([f EXCEPT !.at = "respond", !.tags = kind,
                                    !.status = IF f.ollama = "healthy" THEN "healthy" ELSE @])
    /\ UNCHANGED <<client_vars, request, response, commands, requests>>

\* Lines 102-117: the Ollama service is asked for its models.
health_check_ollama ==
    /\ frame # None
    /\ Get(frame).op = "health"
    /\ Get(frame).at = "ollama"
    /\ \E kind \in ListingKinds :
        frame' = Some([OllamaChecked(Get(frame), kind) EXCEPT !.at = "respond", !.tags = kind])
    /\ UNCHANGED <<client_vars, request, response, commands, requests>>

\* Lines 119-124: the response is made.
health_check_respond ==
    /\ frame # None
    /\ Get(frame).op = "health"
    /\ Get(frame).at = "respond"
    /\ response' = Some(Json(IF Get(frame).status = "healthy" THEN Ok ELSE ServiceUnavailable,
                             Get(frame).status))
    /\ frame' = Some([Get(frame) EXCEPT !.at = "done"])
    /\ UNCHANGED <<client_vars, request, commands, requests>>

(* ------------------------ POST /trading/paper/demo ---------------------- *)

\* The symbols of the demo cycle, line 343, and what the random calls of
\* lines 349, 361 and 366 give: a price variation in percent, the signals.
DemoSymbols == <<"BTC", "ETH">>
Variations == {0 - MaxVariation, 0, MaxVariation}
SentimentSignals == {"BULLISH", "BEARISH", "NEUTRAL"}
TechnicalSignals == {"BUY", "SELL", "HOLD"}

\* round(n / d), for n >= 0 and d > 0, halves upwards.
Round(n, d) == (2 * n + d) \div (2 * d)

\* Lines 347-350: current_price = base_price * (1 + variation), in cents.
CurrentPrice(symbol, variation) ==
    (IF symbol = "BTC" THEN BasePriceBTC ELSE BasePriceETH) * (CentsPerDollar + variation)

\* Lines 375-382: the final decision.
FinalDecision(symbol, sentiment, technical) ==
    IF symbol = "BTC" /\ sentiment = "BULLISH" /\ technical \in {"BUY", "HOLD"} THEN "BUY"
    ELSE IF symbol = "ETH" /\ sentiment = "BULLISH" THEN "BUY"
    ELSE "HOLD"

\* Lines 388-393: the amount, in tenths of a coin, and cost = round(amount *
\* current_price, 2), in cents.
Amount(symbol) == IF symbol = "BTC" THEN AmountBTC ELSE AmountETH
Cost(symbol, current_price) == Round(Amount(symbol) * current_price, TenthsPerCoin)

\* The trade is recorded and the balance is left as it was.
Executed_undebited(f, trade) ==
    [f EXCEPT !.trades_executed = Append(@, trade),
              !.portfolio = [s \in DOMAIN @ \cup {trade.symbol} |->
                                IF s = trade.symbol
                                THEN [amount |-> trade.amount, avg_price |-> trade.price,
                                      value |-> trade.cost]
                                ELSE @[s]]]

\* Lines 397-411: the trade is executed.
Executed(f, trade) ==
    [f EXCEPT !.trades_executed = Append(@, trade),
              !.current_balance = @ - trade.cost,
              !.portfolio = [s \in DOMAIN @ \cup {trade.symbol} |->
                                IF s = trade.symbol
                                THEN [amount |-> trade.amount, avg_price |-> trade.price,
                                      value |-> trade.cost]
                                ELSE @[s]]]

\* run_paper_trading_demo, lines 323-340: demo_results is made.
run_paper_trading_demo ==
    /\ Receives
    /\ request' = Some([path |-> "/trading/paper/demo"])
    /\ frame' = Some([op |-> "demo", at |-> "loop", symbols |-> DemoSymbols,
                      initial_balance |-> InitialBalance * CentsPerDollar,
                      current_balance |-> InitialBalance * CentsPerDollar,
                      analysis_results |-> <<>>,
                      trades_executed |-> <<>>,
                      portfolio |-> <<>>])
    /\ response' = None
    /\ commands' = <<>>
    /\ UNCHANGED client_vars

\* Lines 343-415: one pass of the loop, for the next symbol.
demo_analyze ==
    /\ frame # None
    /\ Get(frame).op = "demo"
    /\ Get(frame).at = "loop"
    /\ Get(frame).symbols # <<>>
    /\ \E variation \in Variations, sentiment \in SentimentSignals,
          technical \in TechnicalSignals :
        LET symbol == Head(Get(frame).symbols)
            current_price == CurrentPrice(symbol, variation)
            final_decision == FinalDecision(symbol, sentiment, technical)
            cost == Cost(symbol, current_price)
            analysed == [Get(frame) EXCEPT
                            !.symbols = Tail(@),
                            !.analysis_results =
                                Append(@, [symbol |-> symbol, price |-> current_price,
                                           final_decision |-> final_decision])]
        IN  frame' =
              IF final_decision = "BUY" /\ cost <= Get(frame).current_balance
              THEN Some(Executed(analysed, [symbol |-> symbol, action |-> "BUY",
                                            amount |-> Amount(symbol),
                                            price |-> current_price, cost |-> cost]))
              ELSE Some(analysed)
    /\ UNCHANGED <<client_vars, request, response, commands, requests>>

\* Lines 417-432: the results are returned.
demo_return ==
    /\ frame # None
    /\ Get(frame).op = "demo"
    /\ Get(frame).at = "loop"
    /\ Get(frame).symbols = <<>>
    /\ frame' = Some([Get(frame) EXCEPT !.at = "done"])
    /\ response' = Some(Json(Ok, "completed"))
    /\ UNCHANGED <<client_vars, request, commands, requests>>

\* The application serves requests; no client is called.
InitApp ==
    /\ ClientFor(LocalBaseUrl)
    /\ timeout = DefaultTimeout
    /\ InitWith({}, SmallEnv, {TRUE}, {1}, {1}, {1})

NextApp ==
    \/ start_paper_trading_session
    \/ health_check
    \/ health_check_config
    \/ health_check_ollama
    \/ health_check_respond
    \/ run_paper_trading_demo
    \/ demo_analyze
    \/ demo_return

SpecApp == InitApp /\ [][NextApp]_vars

(* ------------------------------- claims -------------------------------- *)

\* A thread is between calls.
Between(t) == pc[t] \in {"idle", "done"}

\* Thread t's call has returned from operation op.
Finished(t, op) == pc[t] = "done" /\ local[t].op = op

\* The call of thread t sent a version request and it failed.
ProbeFailed(t) == local[t].outcome \notin {"none", "200"}

\* Thread t begins to call op in this step.
Calling(t, op) == Between(t) /\ calls' = calls + 1 /\ local'[t].op = op

\* Thread t, in check_health(force=False) with a status cached, decides in
\* this step whether to serve it.
Deciding(t) ==
    /\ pc[t] = "ch_cache"
    /\ pc'[t] # "ch_cache"
    /\ local[t].op = "check_health"
    /\ ~ local[t].force
    /\ _health_status # None

\* The seconds between the cached status's probe and the call of thread t.
Elapsed(t) == local[t].now - Get(_health_status).last_check

\* C1: check(force=false), called while a status is cached and less than
\* healthCheckInterval has elapsed since its probe, returns the cached status,
\* sends no request and leaves lastStatus, its lastCheck and
\* consecutiveFailures as they were.
C1_FreshCacheIsServed ==
    [][\A t \in Threads :
        /\ Calling(t, "check_health") => (log'[t] = <<>> /\ UNCHANGED monitor_vars)
        /\ (Deciding(t) /\ Elapsed(t) < health_check_interval)
              => /\ pc'[t] = "done"
                 /\ local'[t].result = Get(_health_status)
                 /\ log'[t] = <<>>
                 /\ UNCHANGED monitor_vars]_vars

\* C1: a check(force=false) has been served from a cache that was already
\* filled when it was called.
C1_Witness ==
    \E t \in Threads :
        /\ Finished(t, "check_health")
        /\ ~ local[t].force
        /\ log[t] = <<>>
        /\ _health_status = Some(local[t].result)
        /\ _consecutive_failures > 0

\* C2: whenever more than healthCheckInterval has elapsed since the cached
\* status's probe, however long (a day or more included), check(force=false)
\* goes on to a new probe: a stale status is never served.
C2_StaleCacheIsRefreshed ==
    [][\A t \in Threads :
        (Deciding(t) /\ Elapsed(t) > health_check_interval)
            => pc'[t] = "ch_version"]_vars

\* The threads are at points where no probe is half applied.
AtRest ==
    \A t \in callers :
        pc[t] \in {"idle", "done", "ch_cache", "eh_sleep", "ci_build", "va_status"}

\* C3: for one caller, consecutiveFailures is the number of probes that failed
\* since the last one that succeeded (or since construction): a failed probe
\* adds 1, a successful one sets it to 0, a cache hit leaves it; the cached
\* status is unhealthy exactly when that number is not 0.
C3_FailuresCounted ==
    AtRest =>
        /\ _consecutive_failures = failed_probes
        /\ _health_status # None =>
              (Get(_health_status).is_healthy <=> _consecutive_failures = 0)
        /\ _health_status = None => _consecutive_failures = 0

\* C3: three probes have failed in a row.
C3_Witness ==
    /\ AtRest
    /\ failed_probes = 3
    /\ ~ Get(_health_status).is_healthy

\* The attempts and the sleeps of a call, without the listing requests.
IsAttemptOrSleep(e) == e.ev # "tags"
Attempts(l) == SelectSeq(l, IsAttemptOrSleep)

\* C4: with health checks enabled ensureHealthy() makes at most maxRetries
\* forced probes, returns true right after the first healthy one, sleeps
\* retryDelay once after each failed attempt but the last allowed one, and
\* returns false only after maxRetries probes that all failed.
C4_EnsureHealthyAttempts ==
    \A t \in Threads :
        (Finished(t, "ensure_healthy") /\ health_check_enabled) =>
            LET r == Attempts(log[t])
                n == Len(r)
                probes == Cardinality({i \in 1 .. n : r[i].ev = "version"})
            IN  /\ probes <= max_retries
                /\ \A i \in 1 .. n :
                    /\ i % 2 = 1 => r[i].ev = "version"
                    /\ i % 2 = 0 => r[i] = Sleep(retry_delay)
                    /\ r[i] = VersionRequest(TRUE) => i = n
                /\ n > 0 => r[n].ev = "version"
                /\ local[t].result = (n > 0 /\ r[n] = VersionRequest(TRUE))
                /\ local[t].result = FALSE => probes = max_retries
                /\ local[t].result = TRUE => log[t][Len(log[t])] = TagsRequest

\* C4: ensureHealthy() has returned true on its second attempt.
C4_Witness ==
    \E t \in Threads :
        /\ Finished(t, "ensure_healthy")
        /\ local[t].result = TRUE
        /\ Attempts(log[t]) = <<VersionRequest(FALSE), Sleep(retry_delay), VersionRequest(TRUE)>>

\* C5: with healthCheckEnabled false, isHealthy() and ensureHealthy() return
\* true, send no request and leave lastStatus and consecutiveFailures as they
\* were, whatever the other fields and the state before.
C5_DisabledIsNoOp ==
    [][\A t \in Threads :
        (/\ ~ health_check_enabled
         /\ \/ Calling(t, "is_healthy")
            \/ Calling(t, "ensure_healthy"))
            => /\ pc'[t] = "done"
               /\ local'[t].result = TRUE
               /\ log'[t] = <<>>
               /\ UNCHANGED monitor_vars]_vars

\* C5: ensureHealthy() has returned true, with health checks disabled, over a
\* cached unhealthy status.
C5_Witness ==
    \E t \in Threads :
        /\ ~ health_check_enabled
        /\ Finished(t, "ensure_healthy")
        /\ local[t].result = TRUE
        /\ _health_status # None
        /\ ~ Get(_health_status).is_healthy
        /\ _consecutive_failures > 0

\* The part of a name before its first ':' (the whole name if it has none).
FamilyOf(name) ==
    LET stops == {i \in 1 .. Len(name) : name[i] = Colon}
    IN  IF stops = {} THEN name
        ELSE SubSeq(name, 1, (CHOOSE i \in stops : \A j \in stops : i <= j) - 1)

\* p is a run of consecutive characters of s.
Contains(s, p) ==
    \E a \in 0 .. Len(s), b \in 0 .. Len(s) :
        /\ a + Len(p) + b = Len(s)
        /\ \A k \in 1 .. Len(p) : s[a + k] = p[k]

\* The last known capability list, empty when there is none.
KnownCapabilities ==
    IF _health_status = None \/ Get(_health_status).available_models = None THEN <<>>
    ELSE Get(Get(_health_status).available_models)

\* What isHealthy() answers on the cached status.
HealthyPerIsHealthy ==
    \/ ~ health_check_enabled
    \/ _health_status # None /\ Get(_health_status).is_healthy

\* C6: isAvailable(name) is true exactly when the monitor is healthy per
\* isHealthy(), the last known capability list is not empty, and name is an
\* entry of it or the part of name before its first ':' is contained in some
\* entry; it is false for every name when unhealthy or the list is empty or
\* absent.
C6_IsAvailable ==
    \A t \in Threads :
        Finished(t, "validate_model_availability") =>
            local[t].result =
                (/\ HealthyPerIsHealthy
                 /\ KnownCapabilities # <<>>
                 /\ \E i \in 1 .. Len(KnownCapabilities) :
                       \/ KnownCapabilities[i] = local[t].model_name
                       \/ Contains(KnownCapabilities[i], FamilyOf(local[t].model_name)))

\* C6: a name that is no entry of the list has been found by its family.
C6_Witness ==
    \E t \in Threads :
        /\ Finished(t, "validate_model_availability")
        /\ local[t].result = TRUE
        /\ local[t].model_name = Name_a1
        /\ \A i \in 1 .. Len(KnownCapabilities) : KnownCapabilities[i] # Name_a1

\* C7: a probe that meets a network error, a timeout or a non-200 answer
\* makes no call raise: check returns a status with isHealthy false and
\* errorMessage set, which is the new lastStatus, consecutiveFailures is one
\* more than before, isHealthy() returns false, and ensureHealthy() whose
\* last attempt failed returns false.
C7_FailureIsData ==
    \A t \in Threads :
        /\ pc[t] # "raised"
        /\ (Finished(t, "check_health") /\ ProbeFailed(t)) =>
              /\ local[t].result.is_healthy = FALSE
              /\ local[t].result.error_message # None
              /\ _health_status = Some(local[t].result)
              /\ _consecutive_failures = local[t].failures_before + 1
        /\ (Finished(t, "is_healthy") /\ ProbeFailed(t)) => local[t].result = FALSE
        /\ (Finished(t, "ensure_healthy") /\ ProbeFailed(t)) => local[t].result = FALSE

\* C7: check has returned after a probe that timed out, on top of an earlier
\* failure.
C7_Witness ==
    \E t \in Threads :
        /\ Finished(t, "check_health")
        /\ local[t].outcome = "Timeout"
        /\ local[t].failures_before = 1
        /\ local[t].result.error_message = Some("Timeout")

\* C8: the verdict of a probe depends on the version endpoint alone: the
\* status is healthy if and only if it answered 200, whatever became of the
\* capability listing; a failed listing gives an empty list, leaves isHealthy
\* true and does not increment consecutiveFailures.
C8_VerdictFromVersionOnly ==
    \A t \in Threads :
        pc[t] = "ch_return" =>
            /\ Get(_health_status).is_healthy <=> local[t].outcome = "200"
            /\ local[t].outcome = "200" =>
                  /\ _consecutive_failures = 0
                  /\ local[t].kind # "models" =>
                        Get(_health_status).available_models = Some(<<>>)

\* C8: a probe is complete whose listing was not JSON, after an earlier
\* failed probe.
C8_Witness ==
    \E t \in Threads :
        /\ pc[t] = "ch_return"
        /\ local[t].outcome = "200"
        /\ local[t].kind = "not_json"
        /\ local[t].failures_before > 0

\* C9: lastStatus.lastCheck never decreases when lastStatus is replaced, for
\* every interleaving of probes by concurrent callers.
C9_LastCheckMonotonic ==
    [][(_health_status # None /\ _health_status' # None)
          => Get(_health_status').last_check >= Get(_health_status).last_check]_vars

\* C10: no reader observes lastStatus and consecutiveFailures in a
\* combination that no single completed probe produced: the snapshot never
\* reports isHealthy true together with consecutiveFailures other than 0.
C10_SnapshotConsistent ==
    \A t \in Threads :
        Finished(t, "get_connection_info") =>
            (local[t].result.is_healthy => local[t].result.consecutive_failures = 0)

\* v begins with http:// or https://.
HasScheme(v) ==
    \E scheme \in {Http, Https} :
        /\ Len(v) >= Len(scheme)
        /\ \A i \in 1 .. Len(scheme) : v[i] = scheme[i]

\* s does not end in '/'.
NoTrailingSlash(s) == s = <<>> \/ s[Len(s)] # Slash

\* s does not begin with '/'.
NoLeadingSlash(s) == s = <<>> \/ s[1] # Slash

\* C11: constructing the configuration with a baseAddress that does not
\* begin with http:// or https:// fails with a configuration error, whether
\* the value is an explicit argument or comes from the OLLAMA_BASE_URL
\* default; on success the stored baseAddress is the given one without its
\* trailing slashes.
C11_AddressValidated ==
    ollama_config # None =>
        IF ~ HasScheme(supplied.value)
        THEN Get(ollama_config).raised = "ValueError"
        ELSE /\ Get(ollama_config).raised = "none"
             /\ NoTrailingSlash(Get(ollama_config).base_url)
             /\ \E n \in 0 .. Len(supplied.value) :
                    supplied.value = Get(ollama_config).base_url \o Slashes(n)

\* The URL asked for last is the base address without its trailing slashes,
\* the path, and '/' with the endpoint without its leading slashes; the '/'
\* is left out for the endpoint "" (as_stated), or whenever no endpoint is
\* left.
UrlIs(as_stated) ==
    LET u == Get(url)
        B == Get(base_url)
        path == IF u.fn = "get_api_url" THEN ApiPath ELSE V1Path
    IN  \E i \in 0 .. Len(B), j \in 0 .. Len(u.endpoint) :
            LET b == SubSeq(B, 1, Len(B) - i)
                e == SubSeq(u.endpoint, j + 1, Len(u.endpoint))
            IN  /\ B = b \o Slashes(i)
                /\ NoTrailingSlash(b)
                /\ u.endpoint = Slashes(j) \o e
                /\ NoLeadingSlash(e)
                /\ u.result = b \o path \o
                      (IF (IF as_stated THEN u.endpoint ELSE e) = <<>> THEN <<>>
                       ELSE <<Slash>> \o e)
                /\ \A k \in 1 .. Len(u.result) - 1 :
                      (Len(b) <= k /\ k <= Len(b) + Len(path) + 1)
                          => ~ (u.result[k] = Slash /\ u.result[k + 1] = Slash)

\* C12, as stated: for every base address B and every endpoint,
\* apiUrl(endpoint) is B without its trailing slashes, "/api/" and the
\* endpoint without its leading slashes, apiUrl("") is B and "/api", and
\* compatUrl is the same with "/v1"; no slash is doubled at the junctions.
C12_UrlsAsStated == url # None => UrlIs(TRUE)

\* C12: for every base address B and every endpoint, apiUrl(endpoint) is B
\* without its trailing slashes, "/api/" and the endpoint without its leading
\* slashes when that leaves an endpoint, and B without its trailing slashes
\* and "/api" when the endpoint is empty or made of slashes only; compatUrl
\* is the same with "/v1"; no slash is doubled at the junctions.
C12_UrlsJoined == url # None => UrlIs(FALSE)

\* C12: the API URL of "/tags" has been asked of a client whose base address
\* ends in two slashes.
C12_Witness ==
    /\ url # None
    /\ Get(base_url) = LocalBaseUrl \o <<Slash, Slash>>
    /\ Get(url).fn = "get_api_url"
    /\ Get(url).endpoint = <<"/", "t", "a", "g", "s">>
    /\ Get(url).result = LocalBaseUrl \o <<"/", "a", "p", "i", "/", "t", "a", "g", "s">>

\* C13: with healthCheckEnabled false the monitor is a no-op that always
\* reports healthy: check(force), for either force, and snapshot() send no
\* request, and the status or isHealthy field they report is healthy.
C13_DisabledNeverProbes ==
    \A t \in Threads :
        (/\ ~ health_check_enabled
         /\ \/ Finished(t, "check_health")
            \/ Finished(t, "get_connection_info"))
            => /\ log[t] = <<>>
               /\ local[t].result.is_healthy = TRUE

\* Thread t, in snapshot() with a status cached, decides in this step whether
\* to serve it.
DecidingSnapshot(t) ==
    /\ pc[t] = "ch_cache"
    /\ pc'[t] # "ch_cache"
    /\ local[t].op = "get_connection_info"
    /\ _health_status # None

\* C14: snapshot() never forces a probe: with a fresh cache it sends no
\* request, leaves lastStatus, its lastCheck and consecutiveFailures as they
\* were, and reports the isHealthy, responseTimeMs, lastCheck,
\* availableCapabilities and errorMessage of the cached status; it probes
\* only when there is no cached status or healthCheckInterval has elapsed.
C14_SnapshotRespectsCache ==
    [][\A t \in Threads :
        /\ Calling(t, "get_connection_info")
              => /\ ~ local'[t].force
                 /\ log'[t] = <<>>
                 /\ UNCHANGED monitor_vars
        /\ (DecidingSnapshot(t) /\ Elapsed(t) < health_check_interval)
              => /\ pc'[t] = "ci_build"
                 /\ local'[t].result = Get(_health_status)
                 /\ log'[t] = <<>>
                 /\ UNCHANGED monitor_vars
        /\ (local[t].op = "get_connection_info" /\ pc[t] # "ch_version"
                /\ pc'[t] = "ch_version")
              => \/ _health_status = None
                 \/ Elapsed(t) >= health_check_interval
        /\ (pc[t] = "ci_build" /\ pc'[t] = "done")
              => /\ local'[t].result.is_healthy = Get(_health_status).is_healthy
                 /\ local'[t].result.response_time_ms = Get(_health_status).response_time_ms
                 /\ local'[t].result.last_check = Get(_health_status).last_check
                 /\ local'[t].result.available_models = Get(_health_status).available_models
                 /\ local'[t].result.error_message = Get(_health_status).error_message
                 /\ log'[t] = log[t]
                 /\ UNCHANGED monitor_vars]_vars

\* C14: snapshot() has answered from a cached unhealthy status without a
\* request.
C14_Witness ==
    \E t \in Threads :
        /\ Finished(t, "get_connection_info")
        /\ log[t] = <<>>
        /\ _health_status # None
        /\ local[t].result.is_healthy = FALSE
        /\ local[t].result.last_check = Get(_health_status).last_check
        /\ local[t].result.consecutive_failures = 2

\* The caller of thread t's finished call changes, in this step, what it was
\* handed.
CallerWrites(t) ==
    /\ pc[t] = "done"
    /\ pc'[t] = "done"
    /\ calls' = calls
    /\ local'[t].result # local[t].result

\* C15: the statuses check and lastKnownStatus return are copies or
\* immutable snapshots: nothing a caller does to one (changing its capability
\* list or its isHealthy field) changes what the monitor caches, and so what
\* a later check, isHealthy, isAvailable or snapshot returns.
C15_ReturnedStatusIsACopy ==
    [][\A t \in Threads : CallerWrites(t) => UNCHANGED monitor_vars]_vars

\* C16: lastKnownStatus() is a pure accessor: it sends no request and changes
\* no state, returns absent on a monitor that has never probed, and otherwise
\* the status the most recent probe stored.
C16_LastKnownStatusIsPure ==
    [][\A t \in Threads :
        Calling(t, "get_health_status")
            => /\ pc'[t] = "done"
               /\ log'[t] = <<>>
               /\ UNCHANGED monitor_vars
               /\ local'[t].result = _health_status
               /\ local'[t].result = None <=> _last_health_check = None
               /\ local'[t].result # None
                     => /\ Some(Get(local'[t].result).last_check) = _last_health_check
                        /\ Get(local'[t].result).is_healthy <=> failed_probes = 0]_vars

\* C16: lastKnownStatus() has returned the status of a failed probe that
\* followed a successful one.
C16_Witness ==
    \E t \in Threads :
        /\ Finished(t, "get_health_status")
        /\ local[t].result # None
        /\ ~ Get(local[t].result).is_healthy
        /\ Get(local[t].result).last_check > 0
        /\ failed_probes = 1

\* C17: a check that performs a probe returns the status that same probe
\* produced, for every interleaving with other callers: a check whose own
\* probe failed never returns a healthy status, and ensureHealthy() never
\* returns true on an attempt whose own probe failed.
C17_ReturnsOwnProbe ==
    \A t \in Threads :
        /\ (Finished(t, "check_health") /\ log[t] # <<>>)
              => (local[t].result.is_healthy <=> local[t].outcome = "200")
        /\ (Finished(t, "ensure_healthy") /\ local[t].result = TRUE)
              => local[t].outcome = "200"

\* Every caller has made one call, a check whose probe failed, and all of
\* them have returned.
AllProbesFailed ==
    /\ calls = Cardinality(callers)
    /\ \A t \in callers :
        /\ Finished(t, "check_health")
        /\ log[t] = <<VersionRequest(FALSE)>>

\* C18: when N probes that all fail are run by concurrent callers on one
\* monitor starting from consecutiveFailures = 0, consecutiveFailures is N
\* once all of them have completed: no increment is lost (and a successful
\* probe that completes after all of them leaves it at 0).  Stated for the
\* failing probes, with one probe per caller.
C18_NoIncrementLost ==
    AllProbesFailed => _consecutive_failures = Cardinality(callers)

\* Thread t, in check(force), decides in this step whether to probe.
DecidingCheck(t) ==
    /\ pc[t] = "ch_cache"
    /\ pc'[t] # "ch_cache"
    /\ local[t].op = "check_health"

\* The check of thread t cannot be answered from the cache: it is forced,
\* nothing is cached, or the cached status has expired.
MissesCache(t) ==
    \/ local[t].force
    \/ _health_status = None
    \/ Elapsed(t) >= health_check_interval

\* C19: every check that does not hit the cache (force=true, no cached
\* status, or expired cache) sends exactly one request to the version
\* endpoint, and the listing request exactly once, after it, if and only if
\* the version request returned 200; a failed probe sends no listing request;
\* check(force=true) probes even when the cache is fresh.
C19_OneVersionThenListing ==
    [][\A t \in Threads :
        /\ (DecidingCheck(t) /\ MissesCache(t)) => pc'[t] = "ch_version"
        /\ (local[t].op = "check_health" /\ pc[t] = "ch_return" /\ pc'[t] = "done")
              => /\ local[t].outcome = "200"
                    => log'[t] = <<VersionRequest(TRUE), TagsRequest>>
                 /\ local[t].outcome # "200"
                    => log'[t] = <<VersionRequest(FALSE)>>]_vars

\* The entry of a listing has a name, and it is not empty.
HasName(entry) == entry # None /\ Get(entry) # <<>>

\* The names of the entries that have one, in the order of the listing.
NamesListed(body) ==
    LET named == SelectSeq(body, HasName)
    IN  [i \in 1 .. Len(named) |-> Get(named[i])]

\* C20: the capability list a successful probe stores is exactly the sequence
\* of the name fields of the listing response's models entries, in response
\* order, without the entries whose name is missing or empty; a response
\* without a models key gives the empty list.
C20_CapabilitiesAreTheNames ==
    \A t \in Threads :
        (pc[t] = "ch_return" /\ local[t].outcome = "200") =>
            /\ local[t].kind = "models"
                  => Get(_health_status).available_models = Some(NamesListed(local[t].body))
            /\ local[t].kind = "no_models_key"
                  => Get(_health_status).available_models = Some(<<>>)

\* C20: a probe has stored the two names of a listing of four entries, one
\* without a name and one with an empty name.
C20_Witness ==
    \E t \in Threads :
        /\ pc[t] = "ch_return"
        /\ local[t].kind = "models"
        /\ Len(local[t].body) = 4
        /\ Get(_health_status).available_models = Some(<<Name_xa, Name_a2>>)

\* C21: in every HealthStatus a probe produces, healthy or not, and in every
\* snapshot, availableCapabilities is a sequence of strings (possibly empty),
\* never an absent value.
C21_CapabilitiesNeverAbsent ==
    /\ _health_status # None => Get(_health_status).available_models # None
    /\ \A t \in Threads :
          Finished(t, "get_connection_info") => local[t].result.available_models # None

\* The status st carries an error message exactly when it is not healthy.
ErrorIffUnhealthy(st) == st.error_message # None <=> ~ st.is_healthy

\* C22: in every HealthStatus the monitor produces, errorMessage is present
\* if and only if isHealthy is false: a healthy status never carries an error
\* message, a healthy status that replaces an unhealthy one included.
C22_ErrorIffUnhealthy ==
    /\ _health_status # None => ErrorIffUnhealthy(Get(_health_status))
    /\ \A t \in Threads :
        /\ Finished(t, "check_health") => ErrorIffUnhealthy(local[t].result)
        /\ Finished(t, "get_connection_info") => ErrorIffUnhealthy(local[t].result)
        /\ (Finished(t, "get_health_status") /\ local[t].result # None)
              => ErrorIffUnhealthy(Get(local[t].result))

\* C22: a healthy status without an error message has replaced an unhealthy
\* one.
C22_Witness ==
    \E t \in Threads :
        /\ Finished(t, "check_health")
        /\ local[t].failures_before = 1
        /\ local[t].outcome = "200"
        /\ local[t].result.is_healthy
        /\ local[t].result.error_message = None
        /\ _health_status = Some(local[t].result)

\* Thread t keeps, through this step, what its finished call handed to it:
\* no call begins in the step.
Keeps(t) == pc[t] = "done" /\ pc'[t] = "done" /\ calls' = calls

\* C23: the monitor never modifies a HealthStatus after storing it: every
\* probe stores a newly built status, so a status a reader obtained earlier
\* keeps all its field values across the later probes of any caller.
C23_StoredStatusNeverModified ==
    [][\A t \in Threads : Keeps(t) => local'[t].result = local[t].result]_vars

\* C23: a reader holds a healthy status while the monitor has stored the
\* unhealthy status of a later probe by another caller.
C23_Witness ==
    \E t \in Threads, u \in Threads :
        /\ t # u
        /\ Finished(t, "check_health")
        /\ local[t].result.is_healthy
        /\ Finished(u, "check_health")
        /\ ~ local[u].result.is_healthy
        /\ _health_status = Some(local[u].result)

\* C24: for every maxRetries the configuration accepts, ensureHealthy() with
\* health checks enabled performs at least one probe before it returns false:
\* maxRetries is a positive integer, so false is never returned without a
\* probe having been attempted.
C24_FalseOnlyAfterAProbe ==
    \A t \in Threads :
        (/\ Finished(t, "ensure_healthy")
         /\ health_check_enabled
         /\ local[t].result = FALSE)
            => /\ max_retries > 0
               /\ \E i \in 1 .. Len(log[t]) : log[t][i].ev = "version"

\* The number of entries ev in a log.
CountOf(l, ev) == Cardinality({i \in 1 .. Len(l) : l[i].ev = ev})

\* C25: ensureHealthy() always terminates, provided every probe returns: it
\* ends after at most maxRetries probes and at most maxRetries - 1 sleeps
\* (none when it makes no probe), does no background work, and leaves no
\* probe in flight when it returns.
C25_EnsureHealthyTerminates ==
    /\ \A t \in Threads :
          (local[t].op = "ensure_healthy" /\ pc[t] # "done")
              ~> Finished(t, "ensure_healthy")
    /\ [](\A t \in Threads :
            Finished(t, "ensure_healthy")
                => /\ CountOf(log[t], "version") <= max_retries
                   /\ \/ CountOf(log[t], "sleep") <= max_retries - 1
                      \/ CountOf(log[t], "sleep") = 0
                   /\ CountOf(log[t], "tags") <= 1)
    /\ [][\A t \in Threads :
            (Finished(t, "ensure_healthy") /\ Keeps(t))
                => (log'[t] = log[t] /\ UNCHANGED monitor_vars)]_vars

\* C25: ensureHealthy() has returned false after two failed probes and one
\* sleep.
C25_Witness ==
    \E t \in Threads :
        /\ Finished(t, "ensure_healthy")
        /\ max_retries = 2
        /\ local[t].result = FALSE
        /\ CountOf(log[t], "version") = 2
        /\ CountOf(log[t], "sleep") = 1

\* x is the smaller of a and b.
IsMinOf(x, a, b) == x <= a /\ x <= b /\ (x = a \/ x = b)

\* C26: for every configured requestTimeout, the timeout used for the version
\* probe is min(requestTimeout, 10) and the timeout used for the capability
\* listing is min(requestTimeout, 15): neither exceeds its ceiling nor the
\* configured requestTimeout.
C26_ProbeTimeouts ==
    \A t \in Threads :
        \A i \in 1 .. Len(log[t]) :
            /\ log[t][i].ev = "version" => IsMinOf(log[t][i].timeout, timeout, 10)
            /\ log[t][i].ev = "tags" => IsMinOf(log[t][i].timeout, timeout, 15)

\* C26: with a requestTimeout of 11 a probe has asked for the version with
\* a timeout of 10 and for the listing with a timeout of 11.
C26_Witness ==
    \E t \in Threads :
        /\ timeout = 11
        /\ Len(log[t]) = 2
        /\ log[t][1].ev = "version"
        /\ log[t][1].timeout = 10
        /\ log[t][2].ev = "tags"
        /\ log[t][2].timeout = 11

\* C27: every baseAddress stored by a successful construction still begins
\* with http:// or https:// and has no trailing slash, for every accepted
\* input, the scheme alone and the scheme followed only by slashes included:
\* stripping the trailing slashes never removes part of the scheme.  Stated
\* for the addresses given as an argument, which the validator has accepted.
C27_StoredAddressKeepsScheme ==
    (/\ ollama_config # None
     /\ supplied.source = "argument"
     /\ Get(ollama_config).raised = "none")
        => /\ HasScheme(Get(ollama_config).base_url)
           /\ NoTrailingSlash(Get(ollama_config).base_url)

\* C28: whenever no probe is in progress, the timestamp the cache-freshness
\* test reads (_last_health_check) equals the last_check of the stored
\* status, after any sequence and any interleaving of probes by concurrent
\* callers: both absent, or both present and equal.
C28_StampIsStoredLastCheck ==
    (\A t \in Threads : Between(t))
        => IF _health_status = None
           THEN _last_health_check = None
           ELSE _last_health_check = Some(Get(_health_status).last_check)

\* What ensure_healthy() has left behind when thread t has it returned with
\* health checks enabled: on True a healthy status and a counter of 0, on
\* False an unhealthy status and max_retries more failures than at the call.
LeftByEnsureHealthy(t) ==
    (Finished(t, "ensure_healthy") /\ health_check_enabled) =>
        /\ local[t].result = TRUE =>
              /\ _health_status # None
              /\ Get(_health_status).is_healthy
              /\ _consecutive_failures = 0
        /\ local[t].result = FALSE =>
              /\ _health_status # None
              /\ ~ Get(_health_status).is_healthy
              /\ _consecutive_failures = local[t].failures_at_call + max_retries

\* C29: for a single caller with health checks enabled: when ensureHealthy()
\* returns true, lastStatus is healthy, consecutiveFailures is 0 and a
\* following check(force=false) within healthCheckInterval returns that
\* status without probing; when it returns false, lastStatus is unhealthy and
\* consecutiveFailures has grown by exactly maxRetries since the call began.
C29_EnsureHealthyLeavesItsVerdict ==
    [][\A t \in Threads :
        /\ LeftByEnsureHealthy(t)'
        /\ (/\ Deciding(t)
            /\ Get(_health_status).is_healthy
            /\ Elapsed(t) < health_check_interval)
              => /\ pc'[t] = "done"
                 /\ local'[t].result = Get(_health_status)
                 /\ log'[t] = <<>>
                 /\ UNCHANGED monitor_vars]_vars

\* C29 for the configurations with max_retries > 0.
C29_WithPositiveRetries ==
    [][max_retries > 0 => \A t \in Threads :
        /\ LeftByEnsureHealthy(t)'
        /\ (/\ Deciding(t)
            /\ Get(_health_status).is_healthy
            /\ Elapsed(t) < health_check_interval)
              => /\ pc'[t] = "done"
                 /\ local'[t].result = Get(_health_status)
                 /\ log'[t] = <<>>
                 /\ UNCHANGED monitor_vars]_vars

\* The operations that ask for the status without forcing a probe.
UnforcedReaders == {"is_healthy", "validate_model_availability", "get_connection_info"}

\* Thread t, inside one of the unforced readers with an unhealthy status
\* cached, decides in this step whether to serve it.
DecidingOnUnhealthy(t) ==
    /\ pc[t] = "ch_cache"
    /\ pc'[t] # "ch_cache"
    /\ local[t].op \in UnforcedReaders
    /\ _health_status # None
    /\ ~ Get(_health_status).is_healthy

\* Thread t reports the cached unhealthy verdict in this step, with no request.
ReportsUnhealthyUnprobed(t) ==
    /\ log'[t] = <<>>
    /\ UNCHANGED monitor_vars
    /\ IF local[t].op = "get_connection_info"
       THEN pc'[t] = "ci_build" /\ local'[t].result = Get(_health_status)
       ELSE pc'[t] = "done" /\ local'[t].result = FALSE

\* What C30 asks of a step, for every age of the cached status or only for
\* the ages below one day.
UnhealthyIsCachedAt(below_a_day) ==
    \A t \in Threads :
        /\ (DecidingOnUnhealthy(t) /\ Elapsed(t) < health_check_interval)
              => ReportsUnhealthyUnprobed(t)
        /\ (pc[t] = "ci_build" /\ pc'[t] = "done")
              => local'[t].result.is_healthy = local[t].result.is_healthy
        /\ (/\ DecidingOnUnhealthy(t)
            /\ local[t].op = "is_healthy"
            /\ Elapsed(t) >= health_check_interval
            /\ below_a_day => Elapsed(t) < SecondsPerDay)
              => pc'[t] = "ch_version"
        /\ (/\ pc[t] = "ch_return"
            /\ local[t].op = "is_healthy"
            /\ local[t].outcome = "200")
              => pc'[t] = "done" /\ local'[t].result = TRUE

\* C30: unhealthy verdicts are cached like healthy ones: after a failed
\* probe, isHealthy(), isAvailable() and snapshot() keep reporting unhealthy
\* without issuing any probe until healthCheckInterval has elapsed or a
\* forced check runs, even if the service has become reachable; once the
\* interval has elapsed the next isHealthy() probes again and reports the
\* recovery.
C30_UnhealthyIsCached == [][UnhealthyIsCachedAt(FALSE)]_vars

\* C30 for the ages below one day.
C30_WithinADay == [][UnhealthyIsCachedAt(TRUE)]_vars

\* C31: with healthCheckEnabled false, isAvailable(name) never issues a
\* network request, and on a monitor that has never probed it returns false
\* for every name; it answers only from whatever status an earlier explicit
\* check or snapshot left cached, however old that status is.
C31_DisabledAnswersFromCache ==
    \A t \in Threads :
        (Finished(t, "validate_model_availability") /\ ~ health_check_enabled) =>
            /\ log[t] = <<>>
            /\ _health_status = None => local[t].result = FALSE
            /\ local[t].result =
                  (/\ KnownCapabilities # <<>>
                   /\ \E i \in 1 .. Len(KnownCapabilities) :
                         \/ KnownCapabilities[i] = local[t].model_name
                         \/ Contains(KnownCapabilities[i], FamilyOf(local[t].model_name)))

\* C31: with health checks disabled a name has been reported available from
\* a status that an explicit check cached a day before.
C31_Witness ==
    \E t \in Threads :
        /\ Finished(t, "validate_model_availability")
        /\ ~ health_check_enabled
        /\ local[t].result = TRUE
        /\ log[t] = <<>>
        /\ clock - Get(_health_status).last_check >= SecondsPerDay

\* C31: with health checks disabled, on a monitor that has never probed, a
\* name has been reported unavailable.
C31_NeverProbed ==
    \E t \in Threads :
        /\ Finished(t, "validate_model_availability")
        /\ ~ health_check_enabled
        /\ _health_status = None
        /\ local[t].result = FALSE

\* Some entry of the last known capability list contains the part of name
\* before its first ':'.
FamilyListed(name) ==
    \E i \in 1 .. Len(KnownCapabilities) : Contains(KnownCapabilities[i], FamilyOf(name))

\* C32: the exact-match test never changes the result of isAvailable: for
\* every name and capability list, isAvailable(name) equals (healthy and some
\* entry contains the part of name before its first ':' as a substring);
\* consequently a name whose family prefix is empty (the empty name, or a name
\* starting with ':') is reported available whenever the service is healthy
\* and the list is non-empty.
C32_FamilyMatchDecides ==
    \A t \in Threads :
        Finished(t, "validate_model_availability") =>
            /\ local[t].result = (HealthyPerIsHealthy /\ FamilyListed(local[t].model_name))
            /\ (/\ FamilyOf(local[t].model_name) = <<>>
                /\ HealthyPerIsHealthy
                /\ KnownCapabilities # <<>>)
                  => local[t].result = TRUE

\* C32: a name that starts with ':' has been reported available, on a list
\* of which it is no entry.
C32_Witness ==
    \E t \in Threads :
        /\ Finished(t, "validate_model_availability")
        /\ local[t].model_name = Name_tag
        /\ Len(Name_tag) > 0
        /\ Name_tag[1] = Colon
        /\ local[t].result = TRUE
        /\ \A i \in 1 .. Len(KnownCapabilities) : KnownCapabilities[i] # Name_tag

\* C32: a name that is an entry of the list has been reported available.
C32_ExactEntry ==
    \E t \in Threads :
        /\ Finished(t, "validate_model_availability")
        /\ local[t].result = TRUE
        /\ \E i \in 1 .. Len(KnownCapabilities) : KnownCapabilities[i] = local[t].model_name

\* C33: create_ollama_client always returns a client and never raises
\* because the service is unreachable: with health checks enabled it runs
\* ensureHealthy() exactly once (at most maxRetries probes) whatever the
\* outcome, and with health checks disabled it issues no network request at
\* all.
C33_FactoryReturnsAClient ==
    \A t \in Threads :
        /\ pc[t] # "raised"
        /\ local[t].op = "create_ollama_client" =>
              /\ CountOf(log[t], "ensure_healthy") <= 1
              /\ CountOf(log[t], "version") <= max_retries
        /\ Finished(t, "create_ollama_client") =>
              /\ local[t].result = Client
              /\ health_check_enabled => CountOf(log[t], "ensure_healthy") = 1
              /\ ~ health_check_enabled => log[t] = <<>>

\* C33: the factory has returned the client after an ensureHealthy() of two
\* probes that both met a connection error.
C33_Witness ==
    \E t \in Threads :
        /\ Finished(t, "create_ollama_client")
        /\ local[t].result = Client
        /\ local[t].outcome = "ConnectionError"
        /\ max_retries = 2
        /\ CountOf(log[t], "ensure_healthy") = 1
        /\ CountOf(log[t], "version") = 2
        /\ \A i \in 1 .. Len(log[t]) : log[t][i].ev = "version" => log[t][i].arg = 0

\* The handler of the session request has run or launched the command.
CommandStarted == \E i \in 1 .. Len(commands) : commands[i].cmd = "run_paper_trading"

\* C34: POST /trading/paper/session with duration greater than 5 minutes
\* starts the paper-trading run in the background: whenever the response has
\* status "started", the run_paper_trading command has actually been
\* launched; with duration of 5 or less the command is run synchronously
\* exactly once and the response is "completed" or "failed" according to its
\* exit code.
C34_SessionIsStarted ==
    (/\ request # None
     /\ Get(request).path = "/trading/paper/session"
     /\ response # None) =>
        /\ Get(response).status = "started" =>
              /\ Get(request).duration > 5
              /\ CommandStarted
        /\ Get(request).duration <= 5 =>
              /\ commands = <<Command(Get(request).duration, "run")>>
              /\ Get(frame).result.raised = "none" =>
                    Get(response).status =
                        IF Get(frame).result.returncode = 0 THEN "completed" ELSE "failed"

\* C34 for the sessions of 5 minutes or less.
C34_ShortSessions ==
    (/\ request # None
     /\ Get(request).path = "/trading/paper/session"
     /\ response # None
     /\ Get(request).duration <= 5) =>
        /\ commands = <<Command(Get(request).duration, "run")>>
        /\ Get(response).status # "started"
        /\ Get(frame).result.raised = "none" =>
              Get(response).status =
                  IF Get(frame).result.returncode = 0 THEN "completed" ELSE "failed"

\* GET /health is being answered, or has been.
InHealth == frame # None /\ Get(frame).op = "health"

\* The Ollama check of the request got a response with status 200.
TagsAnswered200 ==
    /\ Get(frame).tags # "none"
    /\ ~ TagsRaises(Get(frame).tags)
    /\ TagsStatusCode(Get(frame).tags) = 200

\* What C35 asks of GET /health, where ollama_succeeded says when the Ollama
\* check counts as succeeded.
HealthVerdict(ollama_succeeded) ==
    InHealth =>
        /\ Get(frame).at \in {"ollama", "respond", "done"} /\ ~ Get(frame).loaded
              => Get(frame).status = "degraded"
        /\ Get(frame).at = "done" =>
              /\ response # None
              /\ Get(response).status = Get(frame).status
              /\ (Get(response).code = 200 /\ Get(response).status = "healthy")
                    <=> (Get(frame).loaded /\ ollama_succeeded)
              /\ ~ (Get(frame).loaded /\ ollama_succeeded)
                    => (Get(response).code = 503 /\ Get(response).status = "degraded")

\* C35 (as stated): GET /health never raises for a failing dependency and
\* answers HTTP 200 with status "healthy" if and only if both the
\* configuration check and the Ollama /api/tags check (status 200)
\* succeeded; if either failed the status is "degraded" and the HTTP code is
\* 503, and a later successful check never turns "degraded" back into
\* "healthy" within one request.
C35_HealthyIffBothAnswered == HealthVerdict(TagsAnswered200)

\* C35 (amended): as stated, with the Ollama check succeeded when it
\* answered 200 and its body was read without an exception (JSON, an object,
\* "models" absent or a list of objects).
C35_HealthyIffBothRead ==
    HealthVerdict(TagsAnswered200 /\ TagsBodyRead(Get(frame).tags))

\* C35: the configuration check failed, the Ollama check then succeeded, and
\* the answer is 503 "degraded".
C35_Witness ==
    /\ InHealth
    /\ Get(frame).at = "done"
    /\ ~ Get(frame).loaded
    /\ Get(frame).tags = "models"
    /\ response = Some(Json(503, "degraded"))

RECURSIVE SumOfCosts(_)
\* The sum of the costs of a sequence of trades.
SumOfCosts(trades) ==
    IF trades = <<>> THEN 0 ELSE Head(trades).cost + SumOfCosts(Tail(trades))

\* The demo cycle is running, or has run.
InDemo == frame # None /\ Get(frame).op = "demo"

\* C36: in the paper-trading demo cycle a BUY is executed only when its cost
\* is at most the current balance, so after any sequence of analysed symbols
\* current_balance is never negative and equals initial_balance minus the
\* sum of the costs of the executed trades, with exactly one portfolio entry
\* per executed trade's symbol.
C36_DemoBalance ==
    InDemo =>
        LET f == Get(frame)
            trades == f.trades_executed
        IN  /\ \A i \in 1 .. Len(trades) :
                  /\ trades[i].action = "BUY"
                  /\ trades[i].cost <= f.initial_balance - SumOfCosts(SubSeq(trades, 1, i - 1))
            /\ f.current_balance >= 0
            /\ f.current_balance = f.initial_balance - SumOfCosts(trades)
            /\ DOMAIN f.portfolio = {trades[i].symbol : i \in 1 .. Len(trades)}
            /\ Cardinality(DOMAIN f.portfolio) = Len(trades)
            /\ \A i \in 1 .. Len(trades) :
                  f.portfolio[trades[i].symbol].value = trades[i].cost

\* C36: both symbols have been bought at their highest prices, for 4515.00
\* and 2730.00 dollars.
C36_Witness ==
    /\ InDemo
    /\ Get(frame).at = "done"
    /\ Len(Get(frame).trades_executed) = 2
    /\ Get(frame).current_balance = 275500
    /\ DOMAIN Get(frame).portfolio = {"BTC", "ETH"}

====
